---- MODULE Spec2Model ----
(***************************************************************************)
(* A model of the MTEF decoder of mtef-rs: MTEquation::parse (src/eqn.rs)  *)
(* and the primitive decoders it calls.  One behaviour is one call of      *)
(* parse on one input buffer: the header is decoded first, then one action *)
(* per iteration of the record loop, one action per arm of its match.  A   *)
(* behaviour may also start in from_ole, which decodes the OLE header of   *)
(* an "Equation Native" stream and calls parse on the body.                *)
(* Every `.unwrap()` of the source on a failed read is a panic: the call   *)
(* aborts (pc = "panic") and returns nothing.                              *)
(***************************************************************************)
EXTENDS Integers, Sequences, FiniteSets, TLC

VARIABLES
    buf,            \* the input buffer (Vec<u8>), bytes 0..255; from_ole replaces
                    \* the stream by its body before it calls parse
    pos,            \* the Cursor's position: number of bytes consumed
    pc,             \* "ole" | "ole_hdr" (from_ole, before parse) |
                    \* "start" | "loop" | "ok" (returned Ok(eqn)) | "panic"
    ole,            \* what parse_ole_hdr returned to from_ole
    hdr,            \* the header fields of MTEquation (m_mtef_ver .. m_inline)
    encoding_defs,  \* MTEquation.encoding_defs
    records,        \* MTEquation.records
    last            \* history: what the latest loop iteration did (tag, cursor marks)

vars == <<buf, pos, pc, ole, hdr, encoding_defs, records, last>>

(***************************************************************************)
(* Record tags (eqn.rs 293-333) and option bits (eqn.rs 336-353).          *)
(***************************************************************************)
END == 0
LINE == 1
CHAR == 2
TMPL == 3
PILE == 4
EMBELL == 5
MATRIX == 6
RULER == 7
FONT_STYLE_DEF == 8
SIZE == 9
FULL == 10
SUB == 11
SUB2 == 12
SYM == 13
SUBSYM == 14
COLOR == 15
COLOR_DEF == 16
FONT_DEF == 17
EQN_PREFS == 18
ENCODING_DEF == 19
FUTURE == 100

MTEF_OPT_NUDGE == 8
MTEF_OPT_LINE_NULL == 1
MTEF_OPT_LINE_LSPACE == 4
MTEF_OPT_CHAR_ENC_CHAR_8 == 4
MTEF_OPT_CHAR_ENC_CHAR_16 == 16
MTEF_OPT_CHAR_ENC_NO_MTCODE == 32

(***************************************************************************)
(* u8/u16 arithmetic as the source computes it.                            *)
(***************************************************************************)
RECURSIVE BitAnd(_, _)
BitAnd(a, b) ==
    IF a = 0 \/ b = 0 THEN 0
    ELSE (IF a % 2 = 1 /\ b % 2 = 1 THEN 1 ELSE 0) + 2 * BitAnd(a \div 2, b \div 2)

RECURSIVE BitOr(_, _)
BitOr(a, b) ==
    IF a = 0 THEN b
    ELSE IF b = 0 THEN a
    ELSE (IF a % 2 = 1 \/ b % 2 = 1 THEN 1 ELSE 0) + 2 * BitOr(a \div 2, b \div 2)

\* `FLAG == FLAG & options`
OptSet(flag, options) == flag = BitAnd(flag, options)

\* `x << 8` on a u16
Shl8u16(x) == (x * 256) % 65536

(***************************************************************************)
(* The Cursor.  A cursor value c is [ok, pos, val, eof]: ok = FALSE once   *)
(* an unwrap() has panicked (every later read of the chain is then         *)
(* skipped), pos the position, val the value of the latest read, eof =     *)
(* TRUE once a read has found the end of the buffer.                       *)
(***************************************************************************)
Cur(p) == [ok |-> TRUE, pos |-> p, val |-> 0, eof |-> FALSE]

\* cur.read_u8().unwrap()
read_u8(b, c) ==
    IF ~c.ok THEN c
    ELSE IF c.pos < Len(b)
    THEN [c EXCEPT !.pos = c.pos + 1, !.val = b[c.pos + 1]]
    ELSE [c EXCEPT !.ok = FALSE, !.eof = TRUE]

\* cur.read_u16::<LittleEndian>().unwrap()
read_u16(b, c) ==
    IF ~c.ok THEN c
    ELSE IF c.pos + 2 <= Len(b)
    THEN [c EXCEPT !.pos = c.pos + 2, !.val = b[c.pos + 1] + 256 * b[c.pos + 2]]
    ELSE [c EXCEPT !.ok = FALSE, !.eof = TRUE]

(***************************************************************************)
(* read_nudge_values (eqn.rs 428-435): two bytes; if either is 128, two    *)
(* 16-bit little-endian values follow and replace them.                    *)
(* read_nudge_values_both is the variant that wants 128 in both bytes,     *)
(* read_variation_unmasked (below) the one that keeps the high bit.        *)
(***************************************************************************)
read_nudge_values_both(b, c) ==
    LET b1 == read_u8(b, c)
        b2 == read_u8(b, b1)
    IN  IF ~b2.ok THEN b2
        ELSE IF b1.val = 128 /\ b2.val = 128
        THEN LET x == read_u16(b, b2)
                 y == read_u16(b, x)
             IN  [y EXCEPT !.val = <<x.val, y.val>>]
        ELSE [b2 EXCEPT !.val = <<b1.val, b2.val>>]

read_nudge_values(b, c) ==
    LET b1 == read_u8(b, c)
        b2 == read_u8(b, b1)
    IN  IF ~b2.ok THEN b2
        ELSE IF b1.val = 128 \/ b2.val = 128
        THEN LET x == read_u16(b, b2)
                 y == read_u16(b, x)
             IN  [y EXCEPT !.val = <<x.val, y.val>>]
        ELSE [b2 EXCEPT !.val = <<b1.val, b2.val>>]

(***************************************************************************)
(* GBK.decode(bytes, DecoderTrap::Strict) (eqn.rs 360).  A decoded string  *)
(* is a sequence of characters: an ASCII byte decodes to its code point,   *)
(* 0x80 to U+20AC, a two-byte (lead 0x81..0xFE, trail 0x40..0x7E or        *)
(* 0x80..0xFE) or four-byte sequence to the character it indexes, kept     *)
(* here as the byte tuple.  0xFF, a bad trail byte and a sequence cut      *)
(* short are decode errors.                                                *)
(***************************************************************************)
RECURSIVE GBKDecode(_)
GBKDecode(s) ==
    IF s = <<>> THEN [ok |-> TRUE, str |-> <<>>]
    ELSE
      LET lead == Head(s)
          Cons(ch, rest) ==
              LET r == GBKDecode(rest)
              IN  IF r.ok THEN [ok |-> TRUE, str |-> <<ch>> \o r.str] ELSE r
          Bad == [ok |-> FALSE, str |-> <<>>]
      IN  IF lead < 128 THEN Cons(lead, Tail(s))
          ELSE IF lead = 128 THEN Cons(8364, Tail(s))
          ELSE IF lead = 255 THEN Bad
          ELSE IF Len(s) < 2 THEN Bad
          ELSE IF s[2] \in 48..57
               THEN IF Len(s) >= 4 /\ s[3] \in 129..254 /\ s[4] \in 48..57
                    THEN Cons(<<lead, s[2], s[3], s[4]>>, SubSeq(s, 5, Len(s)))
                    ELSE Bad
          ELSE IF s[2] \in (64..126) \cup (128..254)
               THEN Cons(<<lead, s[2]>>, SubSeq(s, 3, Len(s)))
          ELSE Bad

(***************************************************************************)
(* read_null_terminated_string (eqn.rs 355-361), with the caller's         *)
(* unwrap(): read_until takes the bytes up to and including the first NUL, *)
(* or all the remaining bytes when there is none; pop() drops the last     *)
(* byte taken; a GBK decode error panics at the caller's unwrap().         *)
(***************************************************************************)
NulAt(b, p) ==
    LET S == {i \in (p + 1)..Len(b) : b[i] = 0}
    IN  IF S = {} THEN 0 ELSE CHOOSE i \in S : \A j \in S : i <= j

read_null_terminated_string(b, c) ==
    IF ~c.ok THEN c
    ELSE
      LET z     == NulAt(b, c.pos)
          taken == IF z = 0 THEN SubSeq(b, c.pos + 1, Len(b)) ELSE SubSeq(b, c.pos + 1, z)
          bytes == IF taken = <<>> THEN <<>> ELSE SubSeq(taken, 1, Len(taken) - 1)
          dec   == GBKDecode(bytes)
      IN  [ok  |-> dec.ok,
           pos |-> c.pos + Len(taken),
           val |-> dec.str,
           eof |-> c.eof \/ z = 0]

(***************************************************************************)
(* read_dimension_arrays (eqn.rs 363-425), with the caller's unwrap().     *)
(* Strings are sequences of one-character strings.  The closure fx         *)
(* appends to the string s, or pushes s to vec on the 0xF terminator.      *)
(* iters counts the iterations of the while loop whose read_u8 succeeded.  *)
(***************************************************************************)
UnitChars == << <<"i", "n">>, <<"c", "m">>, <<"p", "t">>, <<"p", "c">>, <<"%">> >>
DigitChars == <<"0", "1", "2", "3", "4", "5", "6", "7", "8", "9", ".", "-">>

fx(x, s, flag, vec) ==
    IF flag
    THEN IF x <= 4
         THEN [ok |-> TRUE, s |-> s \o UnitChars[x + 1], vec |-> vec]
         ELSE [ok |-> FALSE, s |-> s, vec |-> vec]
    ELSE IF x <= 11
         THEN [ok |-> TRUE, s |-> Append(s, DigitChars[x + 1]), vec |-> vec]
         ELSE IF x = 15
         THEN [ok |-> TRUE, s |-> <<>>, vec |-> Append(vec, s)]
         ELSE [ok |-> FALSE, s |-> s, vec |-> vec]

RECURSIVE dim_loop(_, _, _)
dim_loop(b, size, d) ==
    IF ~d.ok \/ ~(d.count < size) THEN d
    ELSE
      LET ch == read_u8(b, [ok |-> TRUE, pos |-> d.pos, val |-> 0, eof |-> d.eof])
      IN  IF ~ch.ok THEN [d EXCEPT !.ok = FALSE, !.eof = TRUE]
          ELSE
            LET hi == BitAnd(ch.val, 240) \div 16
                lo == BitAnd(ch.val, 15)
                r1 == fx(hi, d.tmp, d.new_str, d.vec)
                c1 == IF hi = 15 THEN d.count + 1 ELSE d.count
                r2 == fx(lo, r1.s, hi = 15, r1.vec)
                c2 == IF lo = 15 THEN c1 + 1 ELSE c1
            IN  IF ~r1.ok \/ ~r2.ok
                THEN [d EXCEPT !.ok = FALSE, !.pos = ch.pos, !.iters = d.iters + 1]
                ELSE dim_loop(b, size,
                         [ok |-> TRUE, eof |-> d.eof, pos |-> ch.pos, count |-> c2,
                          new_str |-> (lo = 15), tmp |-> r2.s, vec |-> r2.vec,
                          iters |-> d.iters + 1])

read_dimension_arrays(b, c, size) ==
    IF ~c.ok THEN c
    ELSE
      LET d == dim_loop(b, size,
                   [ok |-> TRUE, eof |-> c.eof, pos |-> c.pos, count |-> 0,
                    new_str |-> TRUE, tmp |-> <<>>, vec |-> <<>>, iters |-> 0])
      IN  [ok |-> d.ok, pos |-> d.pos, val |-> d.vec, eof |-> d.eof, iters |-> d.iters]

(***************************************************************************)
(* The arms of the match in MTEquation::parse (eqn.rs 118-234).  Each      *)
(* takes the buffer and the position p just after the tag byte and gives   *)
(* [ok, eof, pos, push, rec] plus cursor marks: opts (the option byte),    *)
(* nf/nt (the position before/after the nudge step), ff/ft (before/after   *)
(* the record's variable field: MTCode of CHAR, variation of TMPL), and    *)
(* dims, the calls of read_dimension_arrays the arm made, in order.        *)
(***************************************************************************)
Arm(c, push, rec, opts, nf, nt, ff, ft) ==
    [ok |-> c.ok, eof |-> c.eof, pos |-> c.pos, push |-> push, rec |-> rec,
     opts |-> opts, nf |-> nf, nt |-> nt, ff |-> ff, ft |-> ft, dims |-> <<>>]

\* the variant of NoPayload that leaves the tag byte unconsumed
NoPayload_peek(p, push, rec) == Arm(Cur(p - 1), push, rec, 0, p, p, p, p)

\* an arm that reads nothing after the tag
NoPayload(p, push, rec) == Arm(Cur(p), push, rec, 0, p, p, p, p)

\* `if MTEF_OPT_NUDGE == MTEF_OPT_NUDGE & options { x.nudge = read_nudge_values(&mut cur) }`
nudge_step(b, o) ==
    IF o.ok /\ OptSet(MTEF_OPT_NUDGE, o.val)
    THEN read_nudge_values(b, o)
    ELSE [o EXCEPT !.val = <<0, 0>>]

\* eqn.rs 120-137
parse_LINE(b, p) ==
    LET o == read_u8(b, Cur(p))
        n == nudge_step(b, o)
        l == IF n.ok /\ OptSet(MTEF_OPT_LINE_LSPACE, o.val)
             THEN read_u8(b, n)
             ELSE [n EXCEPT !.val = 0]
    IN  Arm(l, TRUE,
            [type |-> "LINE", nudge |-> n.val, line_spacing |-> l.val,
             null |-> OptSet(MTEF_OPT_LINE_NULL, o.val)],
            o.val, o.pos, n.pos, n.pos, n.pos)

\* eqn.rs 146-148
mtcode_step(b, o, t) ==
    IF t.ok /\ MTEF_OPT_CHAR_ENC_NO_MTCODE # BitAnd(MTEF_OPT_CHAR_ENC_NO_MTCODE, o.val)
    THEN read_u16(b, t)
    ELSE [t EXCEPT !.val = 0]

\* eqn.rs 138-157
parse_CHAR(b, p) ==
    LET o   == read_u8(b, Cur(p))
        n   == nudge_step(b, o)
        t   == read_u8(b, n)
        m   == mtcode_step(b, o, t)
        f8  == IF m.ok /\ OptSet(MTEF_OPT_CHAR_ENC_CHAR_8, o.val)
               THEN read_u8(b, m)
               ELSE [m EXCEPT !.val = 0]
        f16 == IF f8.ok /\ OptSet(MTEF_OPT_CHAR_ENC_CHAR_16, o.val)
               THEN read_u16(b, f8)
               ELSE [f8 EXCEPT !.val = 0]
    IN  Arm(f16, TRUE,
            [type |-> "CHAR", nudge |-> n.val, typeface |-> t.val, mtcode |-> m.val,
             fp8 |-> f8.val, fp16 |-> f16.val],
            o.val, o.pos, n.pos, t.pos, m.pos)

\* eqn.rs 166-174: variation, 1 or 2 bytes
read_variation_unmasked(b, c) ==
    LET byte1 == read_u8(b, c)
    IN  IF ~byte1.ok THEN byte1
        ELSE IF 128 = BitAnd(byte1.val, 128)
        THEN LET byte2 == read_u8(b, byte1)
             IN  [byte2 EXCEPT !.val = BitOr(byte1.val, Shl8u16(byte2.val))]
        ELSE byte1

read_variation(b, c) ==
    LET byte1 == read_u8(b, c)
    IN  IF ~byte1.ok THEN byte1
        ELSE IF 128 = BitAnd(byte1.val, 128)
        THEN LET byte2 == read_u8(b, byte1)
             IN  [byte2 EXCEPT !.val = BitOr(BitAnd(byte1.val, 127), Shl8u16(byte2.val))]
        ELSE byte1

\* eqn.rs 158-178
parse_TMPL(b, p) ==
    LET o   == read_u8(b, Cur(p))
        n   == nudge_step(b, o)
        sel == read_u8(b, n)
        v   == read_variation(b, sel)
        so  == read_u8(b, v)
    IN  Arm(so, TRUE,
            [type |-> "TMPL", nudge |-> n.val, selector |-> sel.val,
             variation |-> v.val, options |-> so.val],
            o.val, o.pos, n.pos, sel.pos, v.pos)

\* eqn.rs 183-189
parse_FONT_STYLE_DEF(b, p) ==
    LET i  == read_u8(b, Cur(p))
        cs == read_u8(b, i)
    IN  Arm(cs, TRUE,
            [type |-> "FONT_STYLE_DEF", font_def_index |-> i.val, char_style |-> cs.val],
            0, p, p, p, p)

\* eqn.rs 198-204
parse_FONT_DEF(b, p) ==
    LET i  == read_u8(b, Cur(p))
        nm == read_null_terminated_string(b, i)
    IN  Arm(nm, TRUE,
            [type |-> "FONT_DEF", enc_def_index |-> i.val, name |-> nm.val],
            0, p, p, p, p)

\* eqn.rs 219-225: `for _i in 0..size`, None is <<>>, Some(x) is <<x>>
RECURSIVE read_styles(_, _, _, _)
read_styles(b, c, n, acc) ==
    IF ~c.ok \/ n = 0 THEN [c EXCEPT !.val = acc]
    ELSE
      LET s == read_u8(b, c)
      IN  IF ~s.ok THEN s
          ELSE IF s.val = 0
          THEN read_styles(b, s, n - 1, Append(acc, <<>>))
          ELSE LET x == read_u8(b, s)
               IN  IF ~x.ok THEN x
                   ELSE read_styles(b, x, n - 1, Append(acc, <<x.val>>))

\* eqn.rs 205-228
parse_EQN_PREFS(b, p) ==
    LET o      == read_u8(b, Cur(p))
        size1  == read_u8(b, o)
        sizes  == read_dimension_arrays(b, size1, size1.val)
        size2  == read_u8(b, sizes)
        spaces == read_dimension_arrays(b, size2, size2.val)
        size3  == read_u8(b, spaces)
        styles == read_styles(b, size3, size3.val, <<>>)
        Call(sz, r) == [size |-> sz.val, from |-> sz.pos, to |-> r.pos, ok |-> r.ok,
                        iters |-> r.iters, val |-> r.val]
    IN  [Arm(styles, TRUE,
             [type |-> "EQN_PREFS", sizes |-> sizes.val, spaces |-> spaces.val,
              styles |-> styles.val],
             o.val, p, p, p, p)
         EXCEPT !.dims = (IF size1.ok THEN <<Call(size1, sizes)>> ELSE <<>>)
                         \o (IF size2.ok THEN <<Call(size2, spaces)>> ELSE <<>>)]

\* eqn.rs 229-230
parse_ENCODING_DEF(b, p) ==
    LET nm == read_null_terminated_string(b, Cur(p))
    IN  Arm(nm, TRUE, [type |-> "ENCODING_DEF", name |-> nm.val], 0, p, p, p, p)

\* the arms that push a unit variant (eqn.rs 119, 191-195, 231-232)
UnitArm == [t \in {END, FULL, SUB, SUB2, SYM, SUBSYM} |->
               CASE t = END    -> "END"
                 [] t = FULL   -> "FULL"
                 [] t = SUB    -> "SUB"
                 [] t = SUB2   -> "SUB2"
                 [] t = SYM    -> "SYM"
                 [] t = SUBSYM -> "SUBSYM"]

\* the arms that only print the tag's name (eqn.rs 179-182, 190, 196-197)
PrintOnly == {PILE, EMBELL, MATRIX, RULER, SIZE, COLOR, COLOR_DEF}

\* the tags with an arm of their own; every other byte takes `Ok(_)`
Named == (0..19) \cup {FUTURE}

(***************************************************************************)
(* The header (eqn.rs 100-116): five bytes, the application name, the      *)
(* inline flag; encoding_defs starts as the four built-in encodings and    *)
(* records empty.  Names are GBK-decoded strings (sequences of code        *)
(* points).                                                                *)
(***************************************************************************)
BuiltinEncodings ==
    << [type |-> "ENCODING_DEF", name |-> <<77, 84, 67, 111, 100, 101>>],
       [type |-> "ENCODING_DEF", name |-> <<85, 110, 107, 110, 111, 119, 110>>],
       [type |-> "ENCODING_DEF", name |-> <<83, 121, 109, 98, 111, 108>>],
       [type |-> "ENCODING_DEF", name |-> <<77, 84, 69, 120, 116, 114, 97>>] >>

parse_header(b) ==
    LET ver  == read_u8(b, Cur(0))
        plat == read_u8(b, ver)
        prod == read_u8(b, plat)
        v    == read_u8(b, prod)
        vsub == read_u8(b, v)
        app  == read_null_terminated_string(b, vsub)
        inl  == read_u8(b, app)
    IN  [ok |-> inl.ok, eof |-> inl.eof, pos |-> inl.pos,
         val |-> [m_mtef_ver |-> ver.val, m_platform |-> plat.val, m_product |-> prod.val,
                  m_version |-> v.val, m_version_sub |-> vsub.val,
                  m_application |-> app.val, m_inline |-> inl.val]]

NoHeader == [m_mtef_ver |-> 0, m_platform |-> 0, m_product |-> 0, m_version |-> 0,
             m_version_sub |-> 0, m_application |-> <<>>, m_inline |-> 0]

\* the entry of `last` for a loop iteration that took the tag at position `at`
Mark(tag, at, r) ==
    [tag |-> tag, at |-> at, ok |-> r.ok, eof |-> r.eof, opts |-> r.opts,
     nf |-> r.nf, nt |-> r.nt, ff |-> r.ff, ft |-> r.ft, dims |-> r.dims]

\* the entry of `last` for the header step (tag -1) and before it (tag -2)
NoMark(tag, ok, eof) ==
    [tag |-> tag, at |-> 0, ok |-> ok, eof |-> eof, opts |-> 0,
     nf |-> 0, nt |-> 0, ff |-> 0, ft |-> 0, dims |-> <<>>]

Header ==
    /\ pc = "start"
    /\ LET h == parse_header(buf)
       IN  /\ pc' = IF h.ok THEN "loop" ELSE "panic"
           /\ pos' = IF h.ok THEN h.pos ELSE pos
           /\ hdr' = IF h.ok THEN h.val ELSE hdr
           /\ encoding_defs' = IF h.ok THEN BuiltinEncodings ELSE encoding_defs
           /\ last' = NoMark(-1, h.ok, h.eof)
    /\ UNCHANGED <<buf, ole, records>>

(***************************************************************************)
(* One iteration of `loop { match cur.read_u8() { ... } }`.                *)
(***************************************************************************)
Tag(t) == pc = "loop" /\ pos < Len(buf) /\ buf[pos + 1] = t

Commit(r) ==
    /\ pc' = IF r.ok THEN "loop" ELSE "panic"
    /\ pos' = IF r.ok THEN r.pos ELSE pos
    /\ records' = IF r.ok /\ r.push THEN Append(records, r.rec) ELSE records
    /\ last' = Mark(buf[pos + 1], pos, r)
    /\ UNCHANGED <<buf, ole, hdr, encoding_defs>>

ReadEND == Tag(END) /\ Commit(NoPayload(pos + 1, TRUE, [type |-> UnitArm[END]]))
ReadLINE == Tag(LINE) /\ Commit(parse_LINE(buf, pos + 1))
ReadCHAR == Tag(CHAR) /\ Commit(parse_CHAR(buf, pos + 1))
ReadTMPL == Tag(TMPL) /\ Commit(parse_TMPL(buf, pos + 1))
ReadPILE == Tag(PILE) /\ Commit(NoPayload(pos + 1, FALSE, <<>>))
ReadEMBELL == Tag(EMBELL) /\ Commit(NoPayload(pos + 1, FALSE, <<>>))
ReadMATRIX == Tag(MATRIX) /\ Commit(NoPayload(pos + 1, FALSE, <<>>))
ReadRULER == Tag(RULER) /\ Commit(NoPayload(pos + 1, FALSE, <<>>))
ReadFONT_STYLE_DEF == Tag(FONT_STYLE_DEF) /\ Commit(parse_FONT_STYLE_DEF(buf, pos + 1))
ReadSIZE == Tag(SIZE) /\ Commit(NoPayload(pos + 1, FALSE, <<>>))
ReadFULL == Tag(FULL) /\ Commit(NoPayload(pos + 1, TRUE, [type |-> UnitArm[FULL]]))
ReadSUB == Tag(SUB) /\ Commit(NoPayload(pos + 1, TRUE, [type |-> UnitArm[SUB]]))
ReadSUB2 == Tag(SUB2) /\ Commit(NoPayload(pos + 1, TRUE, [type |-> UnitArm[SUB2]]))
ReadSYM == Tag(SYM) /\ Commit(NoPayload(pos + 1, TRUE, [type |-> UnitArm[SYM]]))
ReadSUBSYM == Tag(SUBSYM) /\ Commit(NoPayload(pos + 1, TRUE, [type |-> UnitArm[SUBSYM]]))
ReadCOLOR == Tag(COLOR) /\ Commit(NoPayload(pos + 1, FALSE, <<>>))
ReadCOLOR_DEF == Tag(COLOR_DEF) /\ Commit(NoPayload(pos + 1, FALSE, <<>>))
ReadFONT_DEF == Tag(FONT_DEF) /\ Commit(parse_FONT_DEF(buf, pos + 1))
ReadEQN_PREFS == Tag(EQN_PREFS) /\ Commit(parse_EQN_PREFS(buf, pos + 1))
ReadENCODING_DEF == Tag(ENCODING_DEF) /\ Commit(parse_ENCODING_DEF(buf, pos + 1))
ReadFUTURE == Tag(FUTURE) /\ Commit(NoPayload(pos + 1, TRUE, [type |-> "FUTURE"]))

\* `Ok(_) => eqn.records.push(MTRecords::FUTURE)`
ReadOther ==
    /\ pc = "loop" /\ pos < Len(buf) /\ buf[pos + 1] \notin Named
    /\ Commit(NoPayload(pos + 1, TRUE, [type |-> "FUTURE"]))

\* `Err(_e) => break`, then `Ok(eqn)`
Break ==
    /\ pc = "loop" /\ ~(pos < Len(buf))
    /\ pc' = "ok"
    /\ UNCHANGED <<buf, pos, ole, hdr, encoding_defs, records, last>>

(***************************************************************************)
(* from_ole (eqn.rs 66-80) on the bytes of the "Equation Native" stream:   *)
(* parse_ole_hdr (eqn.rs 269-288) decodes the 28-byte EqnOleFileHdr, then  *)
(* the body buf[cb_hdr .. cb_hdr + size] is handed to parse.               *)
(***************************************************************************)
\* cur.read_u32::<LittleEndian>().unwrap()
read_u32(b, c) ==
    IF ~c.ok THEN c
    ELSE IF c.pos + 4 <= Len(b)
    THEN [c EXCEPT !.pos = c.pos + 4,
                   !.val = b[c.pos + 1] + 256 * b[c.pos + 2]
                           + 65536 * b[c.pos + 3] + 16777216 * b[c.pos + 4]]
    ELSE [c EXCEPT !.ok = FALSE, !.eof = TRUE]

OLE_CB_HDR == 28
OLE_VERSION == 131072

\* ok = FALSE: an unwrap() panicked; invalid = TRUE: Err(Error::InvalidOLEFile)
parse_ole_hdr(b) ==
    LET cb  == read_u16(b, Cur(0))
        ver == read_u32(b, cb)
        cf  == read_u16(b, ver)
        sz  == read_u32(b, cf)
        r1  == read_u32(b, sz)
        r2  == read_u32(b, r1)
        r3  == read_u32(b, r2)
        r4  == read_u32(b, r3)
    IN  [ok |-> r4.ok,
         invalid |-> OLE_CB_HDR # cb.val /\ OLE_VERSION # ver.val,
         val |-> [cb_hdr |-> cb.val, version |-> ver.val, cf |-> cf.val, size |-> sz.val,
                  reserved1 |-> r1.val, reserved2 |-> r2.val,
                  reserved3 |-> r3.val, reserved4 |-> r4.val]]

NoOle == [ok |-> FALSE, invalid |-> FALSE,
          val |-> [cb_hdr |-> 0, version |-> 0, cf |-> 0, size |-> 0,
                   reserved1 |-> 0, reserved2 |-> 0, reserved3 |-> 0, reserved4 |-> 0]]

\* `EqnOleFileHdr::parse_ole_hdr(&buf)`
ParseOleHdr ==
    /\ pc = "ole"
    /\ LET h == parse_ole_hdr(buf)
       IN  /\ pc' = IF h.ok THEN "ole_hdr" ELSE "panic"
           /\ ole' = IF h.ok THEN h ELSE ole
    /\ UNCHANGED <<buf, pos, hdr, encoding_defs, records, last>>

\* `.unwrap()` of the result, then the slice of the body, then parse(body)
OleBody ==
    /\ pc = "ole_hdr"
    /\ LET from == ole.val.cb_hdr
           to   == ole.val.cb_hdr + ole.val.size
       IN  IF ~ole.invalid /\ to <= Len(buf)
           THEN buf' = SubSeq(buf, from + 1, to) /\ pc' = "start"
           ELSE buf' = buf /\ pc' = "panic"
    /\ UNCHANGED <<pos, ole, hdr, encoding_defs, records, last>>

(***************************************************************************)
(* The input buffers.  A buffer is a header followed by at most MaxRecords *)
(* byte groups: the last one from Groups, possibly cut short, the ones     *)
(* before it from Leading.  Groups covers every arm of the match, every    *)
(* option bit and both forms of each variable-width field.  The header     *)
(* alone is also cut at every length.                                      *)
(***************************************************************************)
MaxRecords == 2

ShortHeader == <<5, 1, 0, 4, 0, 77, 84, 0, 0>>
MathTypeHeader == <<5, 0, 0, 0, 0, 77, 97, 116, 104, 84, 121, 112, 101, 0, 0>>
BadNameHeader == <<5, 1, 0, 4, 0, 77, 129, 0, 0>>

Groups ==
    { <<0>>,
      <<1, 0>>, <<1, 1>>, <<1, 4, 7>>, <<1, 8, 5, 6>>,
      <<1, 8, 128, 6, 1, 0, 2, 0>>, <<1, 12, 5, 128, 1, 1, 2, 2, 9>>,
      <<2, 0, 131, 120, 0>>, <<2, 0, 131, 0, 0>>, <<2, 32, 131>>, <<2, 36, 131, 65>>,
      <<2, 16, 131, 120, 0, 52, 18>>, <<2, 52, 3, 65, 1, 2>>,
      <<2, 8, 5, 6, 131, 120, 0>>, <<2, 40, 128, 128, 1, 0, 2, 0, 131>>,
      <<3, 0, 1, 2, 0>>, <<3, 0, 1, 130, 3, 0>>, <<3, 0, 2, 127, 1>>,
      <<3, 0, 2, 128, 0, 1>>, <<3, 0, 2, 255, 255, 0>>, <<3, 8, 5, 6, 1, 2, 0>>,
      <<3, 8, 128, 5, 1, 0, 2, 0, 1, 129, 1, 0>>,
      <<4>>, <<5>>, <<6>>, <<7>>, <<8, 1, 2>>, <<9>>, <<10>>, <<11>>, <<12>>, <<13>>,
      <<14>>, <<15>>, <<16>>,
      <<17, 4, 65, 0>>, <<17, 1, 129, 0>>,
      <<18, 0, 0, 0, 0>>, <<18, 0, 1, 33, 240, 0, 0>>, <<18, 0, 1, 33, 245, 0, 0>>,
      <<18, 0, 0, 1, 16, 159, 0>>,
      <<18, 0, 2, 47, 65, 175, 1, 15, 2, 0, 1, 5>>, <<18, 0, 1, 95>>, <<18, 0, 1, 44>>,
      <<19, 83, 0>>, <<19, 83, 121, 0>>,
      <<100>>, <<100, 1, 0>>, <<100, 2, 2, 0>>, <<101, 0>>, <<20>>, <<99>>, <<255>> }

Leading ==
    { <<0>>, <<1, 0>>, <<1, 8, 128, 6, 1, 0, 2, 0>>,
      <<2, 0, 131, 120, 0>>, <<2, 32, 131>>,
      <<3, 0, 1, 2, 0>>, <<3, 8, 5, 6, 1, 130, 3, 0>>,
      <<4>>, <<8, 1, 2>>, <<10>>, <<17, 4, 65, 0>>,
      <<18, 0, 1, 33, 240, 0, 0>>, <<19, 83, 0>>,
      <<100>>, <<100, 1, 0>>, <<20>> }

Prefixes(S) == UNION {{SubSeq(g, 1, n) : n \in 0..Len(g)} : g \in S}

RECURSIVE Bodies(_)
Bodies(k) ==
    IF k <= 1 THEN Prefixes(Groups)
    ELSE Prefixes(Groups) \cup {g \o t : g \in Leading, t \in Bodies(k - 1)}

\* the scenarios of the specification's section 8
CharScenario == MathTypeHeader \o <<2, 0, 131, 120, 0>> \o <<0>>
TmplScenario ==
    MathTypeHeader \o <<3, 0, 1, 2, 0>>
        \o <<1, 0, 2, 0, 131, 120, 0, 0>> \o <<1, 0, 2, 0, 131, 121, 0, 0>> \o <<0>>
EncodingScenario ==
    MathTypeHeader \o <<19, 83, 121, 109, 98, 111, 108, 50, 0>> \o <<17, 4, 65, 0>>

Inputs ==
    Prefixes({ShortHeader, BadNameHeader})
        \cup {ShortHeader \o t : t \in Bodies(MaxRecords)}
        \cup {CharScenario, TmplScenario, EncodingScenario}

\* little-endian bytes of x, n of them
RECURSIVE LE(_, _)
LE(x, n) == IF n = 0 THEN <<>> ELSE <<x % 256>> \o LE(x \div 256, n - 1)

\* an EqnOleFileHdr: cb_hdr, version, cf, size, reserved1..4
OleHdrBytes(cb, ver, size) ==
    LE(cb, 2) \o LE(ver, 4) \o LE(0, 2) \o LE(size, 4) \o LE(0, 4) \o LE(0, 4) \o LE(0, 4) \o LE(0, 4)

OleCbHdrs == {0, 27, 28, 29}
OleVersions == {0, 131072, 131073, 196608}
OleBodies == {<<>>, ShortHeader, ShortHeader \o <<0>>, CharScenario}

\* "Equation Native" streams: a header cut at every length, and every header
\* followed by a body, with a size field that fits, falls short, or overruns
OleInputs ==
    Prefixes({OleHdrBytes(OLE_CB_HDR, OLE_VERSION, 0)})
        \cup {OleHdrBytes(cb, ver, Len(body) + d) \o body :
                cb \in OleCbHdrs, ver \in OleVersions, body \in OleBodies, d \in 0..1}
        \cup {OleHdrBytes(cb, ver, 9) \o CharScenario :
                cb \in OleCbHdrs, ver \in OleVersions}

Init ==
    /\ \/ pc = "start" /\ buf \in Inputs
       \/ pc = "ole" /\ buf \in OleInputs
    /\ pos = 0
    /\ ole = NoOle
    /\ hdr = NoHeader
    /\ encoding_defs = <<>>
    /\ records = <<>>
    /\ last = NoMark(-2, TRUE, FALSE)

Next ==
    \/ ParseOleHdr \/ OleBody
    \/ Header
    \/ ReadEND \/ ReadLINE \/ ReadCHAR \/ ReadTMPL
    \/ ReadPILE \/ ReadEMBELL \/ ReadMATRIX \/ ReadRULER
    \/ ReadFONT_STYLE_DEF \/ ReadSIZE
    \/ ReadFULL \/ ReadSUB \/ ReadSUB2 \/ ReadSYM \/ ReadSUBSYM
    \/ ReadCOLOR \/ ReadCOLOR_DEF
    \/ ReadFONT_DEF \/ ReadEQN_PREFS \/ ReadENCODING_DEF
    \/ ReadFUTURE \/ ReadOther
    \/ Break

Spec == Init /\ [][Next]_vars

(***************************************************************************)
(* The claims.  `last` describes the latest iteration of the record loop:  *)
(* Decoded(T) says it took a tag in T and completed (no unwrap panicked),  *)
(* so a record of that tag is the last entry of `records`.                 *)
(***************************************************************************)
Decoded(T) == last.tag \in T /\ last.ok
LastRecord == records[Len(records)]
NudgeBit == (buf[last.at + 2] \div 8) % 2 = 1
Sentinel == buf[last.nf + 1] = 128 \/ buf[last.nf + 2] = 128

\* C1 (as stated): in a decoded LINE, CHAR or TMPL the nudge step consumes no
\* byte when the NUDGE bit (0x08) is clear, exactly 2 bytes when it is set and
\* neither of the two bytes is 128, and exactly 4 bytes in total when either
\* of them is 128.
C1_NudgeTwoOrFour ==
    Decoded({LINE, CHAR, TMPL}) =>
        /\ last.nf = last.at + 2
        /\ last.nt = last.nf + (IF ~NudgeBit THEN 0 ELSE IF Sentinel THEN 4 ELSE 2)

\* C1 (amended): as above, except that when either of the two bytes is 128
\* the nudge step consumes exactly 6 bytes in total: the two bytes and two
\* 16-bit little-endian values.
C1_NudgeTwoOrSix ==
    Decoded({LINE, CHAR, TMPL}) =>
        /\ last.nf = last.at + 2
        /\ last.nt = last.nf + (IF ~NudgeBit THEN 0 ELSE IF Sentinel THEN 6 ELSE 2)

\* a decoded LINE whose nudge has the sentinel 128 on the first byte only
C1_Witness ==
    /\ Decoded({LINE}) /\ NudgeBit
    /\ buf[last.nf + 1] = 128 /\ buf[last.nf + 2] # 128
    /\ LastRecord.nudge = <<1, 2>>

\* C2: a buffer that ends inside the header or inside a record's payload makes
\* parse return a typed decode error: no panic, no Ok.  (last.eof: a read of
\* the header or of a payload found the end of the buffer; parse has no path
\* that returns Err, which pc = "error" would be.)
C2_TruncationIsTypedError == last.eof => pc = "error"

\* the lists still open after the records recs: a non-null LINE and a TMPL
\* open one, an END closes the innermost
RECURSIVE OpenLists(_, _)
OpenLists(recs, d) ==
    IF recs = <<>> THEN d
    ELSE LET r == Head(recs)
         IN  OpenLists(Tail(recs),
                 IF r.type = "TMPL" \/ (r.type = "LINE" /\ ~r.null) THEN d + 1
                 ELSE IF r.type = "END" /\ d > 0 THEN d - 1
                 ELSE d)

\* C3: parse never returns Ok for a buffer that ends with a LINE or TMPL list
\* still open.
C3_OpenListIsError == pc = "ok" => OpenLists(records, 0) = 0

\* C4: after reading a tag without a grammar (PILE, MATRIX, EMBELL, RULER,
\* SIZE, COLOR, COLOR_DEF, 20..99) the call ends with an error; it does not
\* go on decoding (pc = "loop") nor return Ok.
C4_UnsupportedTagIsError ==
    last.tag \in PrintOnly \cup (20..99) => pc \notin {"loop", "ok"}

\* C5: a record with tag >= 100 whose length byte L and L payload bytes are in
\* the buffer is consumed whole: the cursor is left after the L payload bytes.
C5_FutureSkipsPayload ==
    (/\ Decoded(100..255)
     /\ last.at + 2 <= Len(buf)
     /\ last.at + 2 + buf[last.at + 2] <= Len(buf))
        => pos = last.at + 2 + buf[last.at + 2]

IsEncodingDef(r) == r.type = "ENCODING_DEF"
Symbol2 == <<83, 121, 109, 98, 111, 108, 50>>

\* C6: once the header is decoded the encoding table is the four built-ins
\* followed by the ENCODING_DEF records decoded so far, in stream order; after
\* ENCODING_DEF "Symbol2" and FONT_DEF with index 4, entry 4 (the fifth) is
\* "Symbol2".
C6_EncodingTableGrows ==
    pc \in {"loop", "ok"} =>
        /\ SubSeq(encoding_defs, 1, 4) = BuiltinEncodings
        /\ encoding_defs = BuiltinEncodings \o SelectSeq(records, IsEncodingDef)
        /\ (buf = EncodingScenario /\ pc = "ok") =>
               /\ Len(encoding_defs) = 5
               /\ encoding_defs[5].name = Symbol2

\* C7: in a decoded CHAR, with NO_MTCODE (0x20) clear the mtcode is the 2-byte
\* little-endian field; with it set no MTCode byte is consumed and the mtcode
\* is absent: not a value a present MTCode can have (0..65535).
C7_MTCodePresence ==
    Decoded({CHAR}) =>
        IF (buf[last.at + 2] \div 32) % 2 = 0
        THEN /\ last.ft = last.ff + 2
             /\ LastRecord.mtcode = buf[last.ff + 1] + 256 * buf[last.ff + 2]
        ELSE /\ last.ft = last.ff
             /\ LastRecord.mtcode \notin 0..65535

\* C8: the root list never holds the END terminator, and the header
\* "MathType" + CHAR(0x00, 0x83, 0x0078) + END decodes to exactly one root
\* node, that Character.
C8_RootListStopsAtEnd ==
    /\ \A i \in 1..Len(records) : records[i].type # "END"
    /\ (buf = CharScenario /\ pc = "ok") =>
           /\ Len(records) = 1
           /\ records[1].type = "CHAR"
           /\ records[1].typeface = 131
           /\ records[1].mtcode = 120

\* C9: TMPL(selector 1, variation 0x02) with two one-Character slots, each
\* closed by its END, and the TMPL's END decodes to one Template node that
\* owns two child lists of length 1; the slot contents are not its siblings.
C9_TemplateOwnsSlots ==
    (buf = TmplScenario /\ pc = "ok") =>
        /\ Len(records) = 1
        /\ records[1].type = "TMPL"
        /\ records[1].selector = 1
        /\ records[1].variation = 2
        /\ "slots" \in DOMAIN records[1]
        /\ Len(records[1].slots) = 2
        /\ \A i \in 1..2 : Len(records[1].slots[i]) = 1

\* C10: in a decoded TMPL the variation takes one byte and equals it when the
\* byte's high bit is clear; otherwise it takes two bytes and equals
\* (byte1 & 0x7F) | (byte2 << 8), with no overflow of 16 bits; the slot
\* options are the byte right after the variation.
C10_Variation ==
    Decoded({TMPL}) =>
        LET byte1 == buf[last.ff + 1]
        IN  /\ IF byte1 < 128
               THEN /\ last.ft = last.ff + 1
                    /\ LastRecord.variation = byte1
               ELSE /\ last.ft = last.ff + 2
                    /\ LastRecord.variation = (byte1 - 128) + 256 * buf[last.ff + 2]
            /\ LastRecord.variation \in 0..65535
            /\ LastRecord.options = buf[last.ft + 1]
            /\ pos = last.ft + 1

\* a decoded TMPL with the two-byte variation 0x82 0x03
C10_Witness ==
    /\ Decoded({TMPL})
    /\ buf[last.ff + 1] = 130 /\ buf[last.ff + 2] = 3
    /\ LastRecord.variation = 770

\* where the name of the latest ENCODING_DEF or FONT_DEF starts, and the
\* indices of the NUL bytes from there on
NameStart == IF last.tag = ENCODING_DEF THEN last.at + 1 ELSE last.at + 2
NulsAfterStart == {i \in (NameStart + 1)..Len(buf) : buf[i] = 0}

\* C11: the name read by read_null_terminated_string in an ENCODING_DEF or
\* FONT_DEF is exactly the bytes before the first NUL (ASCII bytes decode to
\* themselves) and the cursor is left just after that NUL; when no NUL
\* remains the read fails and no record with a name is produced.
C11_StringStopsAtNul ==
    (last.tag \in {ENCODING_DEF, FONT_DEF} /\ NameStart <= Len(buf)) =>
        IF NulsAfterStart = {}
        THEN ~last.ok
        ELSE LET z == CHOOSE i \in NulsAfterStart : \A j \in NulsAfterStart : i <= j
             IN  (\A i \in (NameStart + 1)..(z - 1) : buf[i] < 128) =>
                     /\ last.ok
                     /\ LastRecord.name = SubSeq(buf, NameStart + 1, z - 1)
                     /\ pos = z

(***************************************************************************)
(* The dimension strings as C13 states them, read off the nibble stream.   *)
(***************************************************************************)
\* the nibbles of the bytes p+1..Len(b), high nibble first
Nibbles(b, p) ==
    [i \in 1..(2 * (Len(b) - p)) |->
        IF i % 2 = 1 THEN b[p + (i + 1) \div 2] \div 16 ELSE b[p + i \div 2] % 16]

StatedUnits == << <<"i", "n">>, <<"c", "m">>, <<"p", "t">>, <<"p", "c">>, <<"%">> >>
StatedChars == <<"0", "1", "2", "3", "4", "5", "6", "7", "8", "9", ".", "-">>

\* n strings starting at nibble i: [ok, val, used], used the number of nibbles
\* up to and including the n-th terminator
RECURSIVE StatedDims(_, _, _, _, _, _)
StatedDims(nib, i, n, start, str, out) ==
    IF n = 0 THEN [ok |-> TRUE, val |-> out, used |-> i - 1]
    ELSE IF i > Len(nib) THEN [ok |-> FALSE, val |-> <<>>, used |-> i - 1]
    ELSE IF start
    THEN IF nib[i] <= 4
         THEN StatedDims(nib, i + 1, n, FALSE, StatedUnits[nib[i] + 1], out)
         ELSE [ok |-> FALSE, val |-> <<>>, used |-> i]
    ELSE IF nib[i] = 15
         THEN StatedDims(nib, i + 1, n - 1, TRUE, <<>>, Append(out, str))
    ELSE IF nib[i] <= 11
         THEN StatedDims(nib, i + 1, n, FALSE, Append(str, StatedChars[nib[i] + 1]), out)
    ELSE [ok |-> FALSE, val |-> <<>>, used |-> i]

\* C13: every call read_dimension_arrays(cur, size) made by an EQN_PREFS
\* record has the outcome the nibbles up to and including the size-th
\* terminator determine: it succeeds exactly when they are well formed, and
\* then returns those `size` strings and leaves the cursor after the byte
\* holding that terminator, whatever the low nibble left over in that byte.
C13_DimensionArrays ==
    last.tag = EQN_PREFS =>
        \A k \in 1..Len(last.dims) :
            LET call   == last.dims[k]
                stated == StatedDims(Nibbles(buf, call.from), 1, call.size, TRUE, <<>>, <<>>)
            IN  /\ call.ok = stated.ok
                /\ stated.ok =>
                       /\ call.val = stated.val
                       /\ Len(call.val) = call.size
                       /\ call.to = call.from + (stated.used + 1) \div 2

\* C12: parse terminates on every buffer: the cursor never passes the end of
\* the buffer, every completed iteration of the record loop and every
\* iteration of the loop of read_dimension_arrays consumes at least one byte
\* (so Len(buf) - pos bounds the iterations left), and the record loop is
\* left (Ok returned) exactly when the tag read finds the buffer exhausted.
C12_Terminates ==
    /\ [](pos <= Len(buf))
    /\ [][(pc = "loop" /\ pc' = "loop") => pos' > pos]_vars
    /\ [](\A k \in 1..Len(last.dims) :
             /\ last.dims[k].to - last.dims[k].from >= last.dims[k].iters
             /\ last.dims[k].to <= Len(buf))
    /\ [][pc = "loop" => (pc' = "ok" <=> pos = Len(buf))]_vars

\* an EQN_PREFS whose first dimension array took three iterations, decoded in
\* a call that returned Ok at the end of the buffer
C12_Witness ==
    /\ pc = "ok" /\ pos = Len(buf)
    /\ Decoded({EQN_PREFS})
    /\ last.dims[1].iters = 3

(***************************************************************************)
(* C14: parse_ole_hdr returns Ok only for a header whose cb_hdr field is   *)
(* 28 and whose version field is 0x00020000; a header in which either      *)
(* field differs is rejected with Error::InvalidOLEFile.  The two fields   *)
(* are read off the stream: bytes 0-1 and bytes 2-5, little-endian.        *)
(***************************************************************************)
StreamCbHdr == buf[1] + 256 * buf[2]
StreamVersion == buf[3] + 256 * buf[4] + 65536 * buf[5] + 16777216 * buf[6]

C14_OleHdrChecked ==
    pc = "ole_hdr" =>
        (~ole.invalid <=> (StreamCbHdr = 28 /\ StreamVersion = 131072))
====
